---- MODULE Spec2Model ----
(***************************************************************************)
(* The transactional scope (DatabaseManager.session_scope) and the generic *)
(* repository (SQLAlchemyRepository, and its earlier form Repository) of   *)
(* the Toy/Owner/Animal persistence example, over a model of the ORM       *)
(* session they drive: a unit of work with pending inserts, modified       *)
(* attributes, autoflush on query, a transaction view of the store, and    *)
(* the "needs rollback" state a failed flush leaves behind. Around them,   *)
(* the entry point: it builds the DatabaseManager (which creates the       *)
(* schema), runs one scope, and handles whatever is raised.                *)
(***************************************************************************)
EXTENDS Integers, Sequences, FiniteSets, TLC

\* Bounds of the exploration.
MaxOps == 4        \* repository calls in a run

VARIABLES
    impl,        \* which repository class the block uses
    fkEnforced,  \* whether the configured store enforces declared foreign keys
    tables,      \* names of the tables the store holds
    manager,     \* outcome of the last DatabaseManager(...) construction
    printed,     \* failure the entry point's handler printed in the last run
    escaped,     \* failure that left the entry point unhandled
    db,          \* committed rows of the store
    txdb,        \* rows as seen inside the session's open transaction
    status,      \* "none" | "active" | "deactive" | "closed"
    new,         \* session: entities added and not yet flushed
    dirty,       \* session: loaded entities with unflushed attribute changes
    calls,       \* session method calls of the last repository call, in order
    exitLog,     \* session method calls session_scope made on leaving, in order
    commits,     \* commits of the current scope's session that went through
    pc,          \* "idle" | "init_failed" | "constructed" | "in_scope" | "exited"
    exc,         \* exception raised by the last call and not yet handled
    last,        \* the last repository call: arguments and outcome
    blockExc,    \* exception with which the block left the scope
    propagated,  \* exception that left session_scope to its caller
    dbAtEnter,   \* committed rows when the current scope was entered
    added,       \* entities added in the current scope (add returned normally)
                 \* and not the target of a later update or delete in it
    nops         \* repository calls made so far

vars == <<impl, fkEnforced, tables, manager, printed, escaped, db, txdb, status,
          new, dirty, calls, exitLog, commits, pc, exc, last, blockExc, propagated,
          dbAtEnter, added, nops>>

-----------------------------------------------------------------------------
\* Entities and their mapped classes (models.py).

NoneValue == "None"
NoExc == "none"

Types == {"Toy", "Owner", "Animal"}

Toy(id, name, toy_type) ==
    [type |-> "Toy", id |-> id, name |-> name, toy_type |-> toy_type]

Owner(id, name, contact_info) ==
    [type |-> "Owner", id |-> id, name |-> name, contact_info |-> contact_info]

Animal(id, name, age, favorite_toy_id, owner_id) ==
    [type |-> "Animal", id |-> id, name |-> name, age |-> age,
     favorite_toy_id |-> favorite_toy_id, owner_id |-> owner_id]

\* Column attributes of each mapped class.
Columns(type) ==
    CASE type = "Toy" -> {"id", "name", "toy_type"}
      [] type = "Owner" -> {"id", "name", "contact_info"}
      [] type = "Animal" -> {"id", "name", "age", "favorite_toy_id", "owner_id"}

\* relationship() attributes of each mapped class.
Relationships(type) ==
    IF type = "Animal" THEN {"favorite_toy", "owner"} ELSE {}

\* Methods the mapped classes inherit from BaseEntity. Toy, Owner and Animal
\* derive from the declarative Base only, so they inherit none of them and
\* carry no timestamps.
BaseEntityMethods(type) == {}

Key(r) == <<r.type, r.id>>

\* Rows of `store` with the given type and id.
Rows(store, type, id) == {r \in store : r.type = type /\ r.id = id}

\* The store's referential-integrity rule: every reference an Animal row
\* carries names an existing Toy / Owner row.
RefsExist(store) ==
    \A a \in store : a.type = "Animal" =>
        /\ a.favorite_toy_id # NoneValue => Rows(store, "Toy", a.favorite_toy_id) # {}
        /\ a.owner_id # NoneValue => Rows(store, "Owner", a.owner_id) # {}

-----------------------------------------------------------------------------
\* The ORM session. A session value is a record
\*   [db, txdb, status, new, dirty, deleted]
\* where `deleted` holds the keys marked by session.delete; every handler
\* that marks one also commits, so it is empty between calls.

IsSQLAlchemyError(e) == e \in {"IntegrityError", "PendingRollbackError"}

Cur ==
    [db |-> db, txdb |-> txdb, status |-> status, new |-> new, dirty |-> dirty,
     deleted |-> {}]

IsClean(s) == s.new = {} /\ s.dirty = {} /\ s.deleted = {}

\* The unit of work written to the transaction: UPDATEs of modified rows,
\* then INSERTs of new ones, then DELETEs. ok is FALSE when a statement
\* violates the primary key, or a foreign key on a store that enforces them.
Flush(s) ==
    LET oldRows == {r \in s.txdb : \E d \in s.dirty : Key(r) = d.key}
        afterUpd == (s.txdb \ oldRows) \cup {d.row : d \in s.dirty}
        pkUpd == \A d \in s.dirty :
                    Key(d.row) # d.key => Rows(s.txdb \ oldRows, d.row.type, d.row.id) = {}
        pkIns == /\ \A n \in s.new : Rows(afterUpd, n.type, n.id) = {}
                 /\ \A n, m \in s.new : Key(n) = Key(m) => n = m
        afterIns == afterUpd \cup s.new
        afterDel == {r \in afterIns : Key(r) \notin s.deleted}
        fkOk == fkEnforced => RefsExist(afterDel)
    IN [ok |-> pkUpd /\ pkIns /\ fkOk, store |-> afterDel]

\* The session after a failed flush: the transaction is rolled back, pending
\* objects are expunged, attribute changes are expired, and the session
\* refuses further work until rollback() is called.
Deactivated(s) ==
    [db |-> s.db, txdb |-> s.db, status |-> "deactive", new |-> {}, dirty |-> {},
     deleted |-> {}]

\* self.Session(): a fresh session on the store.
NewSession(store) ==
    [db |-> store, txdb |-> store, status |-> "active", new |-> {}, dirty |-> {},
     deleted |-> {}]

session_add(s, entity) == [s EXCEPT !.new = @ \cup {entity}]

session_delete(s, entity) == [s EXCEPT !.deleted = @ \cup {Key(entity)}]

session_commit(s) ==
    IF s.status = "deactive"
    THEN [s |-> s, exc |-> "PendingRollbackError"]
    ELSE LET f == Flush(s) IN
         IF f.ok
         THEN [s |-> [db |-> f.store, txdb |-> f.store, status |-> "active",
                      new |-> {}, dirty |-> {}, deleted |-> {}],
               exc |-> NoExc]
         ELSE [s |-> Deactivated(s), exc |-> "IntegrityError"]

session_rollback(s) ==
    [db |-> s.db, txdb |-> s.db, status |-> "active", new |-> {}, dirty |-> {},
     deleted |-> {}]

session_close(s) ==
    [db |-> s.db, txdb |-> s.db, status |-> "closed", new |-> {}, dirty |-> {},
     deleted |-> {}]

\* session.query(cls).filter_by(id=...).first(): autoflush, then SELECT in the
\* transaction. value is {} for None and {row} for a hit.
session_query_first(s, type, id) ==
    IF s.status = "deactive"
    THEN [s |-> s, exc |-> "PendingRollbackError", value |-> {}]
    ELSE LET f == Flush(s) IN
         IF IsClean(s) \/ f.ok
         THEN LET store == IF IsClean(s) THEN s.txdb ELSE f.store
                  hit == Rows(store, type, id)
              IN [s |-> [s EXCEPT !.txdb = store, !.new = {}, !.dirty = {}],
                  exc |-> NoExc,
                  value |-> IF hit = {} THEN {} ELSE {CHOOSE r \in hit : TRUE}]
         ELSE [s |-> Deactivated(s), exc |-> "IntegrityError", value |-> {}]

-----------------------------------------------------------------------------
\* The repository. Each operation takes the session value and returns
\*   [s, exc, value, entity, log, reported]
\* s: the session afterwards; exc: the exception raised (NoExc when it
\* returns); value: what it returns ({} for None); entity: the instance it
\* worked on (the one given to add, the one update and delete loaded, {} when
\* there is none); log: the session methods it called; reported: whether it
\* printed a not-found message.

Call(by, m, ok) == [by |-> by, m |-> m, ok |-> ok]

\* setattr(entity, key, value) on a mapped instance, for a scalar value. A
\* column attribute takes the value; a relationship attribute accepts mapped
\* instances only and raises AttributeError for a scalar; any other name
\* becomes a plain attribute of the Python object and never reaches the row.
setattr(row, key, value) ==
    IF key \in Columns(row.type)
    THEN [row |-> [row EXCEPT ![key] = value], exc |-> NoExc]
    ELSE IF key \in Relationships(row.type)
    THEN [row |-> row, exc |-> "AttributeError"]
    ELSE [row |-> row, exc |-> NoExc]

\* for key, value in kwargs.items(): setattr(entity, key, value)
\* The loop stops at the first setattr that raises; earlier ones stay applied.
RECURSIVE ApplyKwargs(_, _)
ApplyKwargs(row, kwargs) ==
    IF kwargs = <<>>
    THEN [row |-> row, exc |-> NoExc]
    ELSE LET a == setattr(row, Head(kwargs).key, Head(kwargs).value) IN
         IF a.exc # NoExc THEN a ELSE ApplyKwargs(a.row, Tail(kwargs))

\* The session once `entity` (loaded from it) carries the attribute values of
\* `row`: the instance is marked modified when a column value differs.
Modified(s, entity, row) ==
    IF row = entity THEN s
    ELSE [s EXCEPT !.dirty = @ \cup {[key |-> Key(entity), row |-> row]}]

\* Variants of add with a defect.
\* The commit is left to the scope.
add_CommitDeferred(s, entity) ==
    [s |-> session_add(s, entity), exc |-> NoExc, value |-> {}, entity |-> {entity},
     log |-> <<Call("repo", "add", TRUE)>>,
     reported |-> FALSE]

\* The entity is never handed to the session.
add_NotStaged(s, entity) ==
    LET c == session_commit(s) IN
    [s |-> c.s, exc |-> c.exc, value |-> {}, entity |-> {entity},
     log |-> <<Call("repo", "commit", c.exc = NoExc)>>,
     reported |-> FALSE]

\* session.merge in place of session.add: a stored row with the same id is
\* overwritten.
add_Merged(s, entity) ==
    LET s1 == [s EXCEPT !.txdb = {r \in @ : Key(r) # Key(entity)}]
        c == session_commit(session_add(s1, entity))
    IN [s |-> c.s, exc |-> c.exc, value |-> {}, entity |-> {entity},
        log |-> <<Call("repo", "add", TRUE), Call("repo", "commit", c.exc = NoExc)>>,
        reported |-> FALSE]

add(s, entity) ==
    LET c == session_commit(session_add(s, entity)) IN
    [s |-> c.s, exc |-> c.exc, value |-> {}, entity |-> {entity},
     log |-> <<Call("repo", "add", TRUE), Call("repo", "commit", c.exc = NoExc)>>,
     reported |-> FALSE]

\* Variant of get_by_id with a defect: it commits after the query.
get_by_id_Commits(s, entity_class, entity_id) ==
    LET q == session_query_first(s, entity_class, entity_id)
        c == session_commit(q.s)
    IN IF q.exc # NoExc
       THEN [s |-> q.s, exc |-> q.exc, value |-> {}, entity |-> {},
             log |-> <<Call("repo", "query", FALSE)>>, reported |-> FALSE]
       ELSE [s |-> c.s, exc |-> c.exc, value |-> q.value, entity |-> {},
             log |-> <<Call("repo", "query", TRUE), Call("repo", "commit", c.exc = NoExc)>>,
             reported |-> FALSE]

get_by_id(s, entity_class, entity_id) ==
    LET q == session_query_first(s, entity_class, entity_id) IN
    [s |-> q.s, exc |-> q.exc, value |-> q.value, entity |-> {},
     log |-> <<Call("repo", "query", q.exc = NoExc)>>,
     reported |-> FALSE]

update(s, entity_class, entity_id, kwargs) ==
    LET q == get_by_id(s, entity_class, entity_id) IN
    IF q.exc # NoExc THEN q
    ELSE IF q.value = {}
    THEN \* SQLAlchemyRepository.update has no else branch; Repository.update_entity prints
         [q EXCEPT !.reported = (impl = "Repository")]
    ELSE LET entity == CHOOSE r \in q.value : TRUE
             a == ApplyKwargs(entity, kwargs)
             s1 == Modified(q.s, entity, a.row)
             c == session_commit(s1)
         IN IF a.exc # NoExc
            THEN [q EXCEPT !.s = s1, !.exc = a.exc, !.value = {}, !.entity = {entity}]
            ELSE IF impl = "Repository" /\ "update_timestamp" \notin BaseEntityMethods(entity_class)
            THEN \* entity.update_timestamp() on a class that does not define it
                 [q EXCEPT !.s = s1, !.exc = "AttributeError", !.value = {},
                           !.entity = {entity}]
            ELSE [s |-> c.s, exc |-> c.exc, value |-> {}, entity |-> {entity},
                  log |-> q.log \o <<Call("repo", "commit", c.exc = NoExc)>>,
                  reported |-> FALSE]

\* Variants of delete with a defect.
\* The loaded entity is never marked for deletion.
delete_NotMarked(s, entity_class, entity_id) ==
    LET q == get_by_id(s, entity_class, entity_id) IN
    IF q.exc # NoExc THEN q
    ELSE IF q.value = {}
    THEN [q EXCEPT !.reported = (impl = "Repository")]
    ELSE LET entity == CHOOSE r \in q.value : TRUE
             c == session_commit(q.s)
         IN [s |-> c.s, exc |-> c.exc, value |-> {}, entity |-> {entity},
             log |-> q.log \o <<Call("repo", "commit", c.exc = NoExc)>>,
             reported |-> FALSE]

\* The deletion is marked and the commit is left to the scope.
delete_CommitDeferred(s, entity_class, entity_id) ==
    LET q == get_by_id(s, entity_class, entity_id) IN
    IF q.exc # NoExc THEN q
    ELSE IF q.value = {}
    THEN [q EXCEPT !.reported = (impl = "Repository")]
    ELSE LET entity == CHOOSE r \in q.value : TRUE
         IN [s |-> session_delete(q.s, entity), exc |-> NoExc, value |-> {},
             entity |-> {entity},
             log |-> q.log \o <<Call("repo", "delete", TRUE)>>,
             reported |-> FALSE]

delete(s, entity_class, entity_id) ==
    LET q == get_by_id(s, entity_class, entity_id) IN
    IF q.exc # NoExc THEN q
    ELSE IF q.value = {}
    THEN [q EXCEPT !.reported = (impl = "Repository")]
    ELSE LET entity == CHOOSE r \in q.value : TRUE
             c == session_commit(session_delete(q.s, entity))
         IN [s |-> c.s, exc |-> c.exc, value |-> {}, entity |-> {entity},
             log |-> q.log \o <<Call("repo", "delete", TRUE),
                                Call("repo", "commit", c.exc = NoExc)>>,
             reported |-> FALSE]

-----------------------------------------------------------------------------
\* The connection/session factory (DatabaseManager.__init__) and the entry
\* point's handler.

\* __tablename__ of the three mapped classes.
AllTables == {"toys", "owners", "animals"}

\* Variant of create_all with a defect: CREATE TABLE is issued for every
\* mapped table without looking at the store first.
create_all_Unchecked(existing, checkfirst) ==
    IF AllTables \cap existing # {}
    THEN [tables |-> existing, created |-> {}, exc |-> "OperationalError"]
    ELSE [tables |-> existing \cup AllTables, created |-> AllTables, exc |-> NoExc]

\* Base.metadata.create_all(engine): with checkfirst (the default) a CREATE
\* TABLE is issued only for the mapped tables the store does not hold; a
\* CREATE TABLE for a table that exists is refused by the store. Rows are not
\* touched.
create_all(existing, checkfirst) ==
    LET todo == IF checkfirst THEN AllTables \ existing ELSE AllTables IN
    IF todo \cap existing # {}
    THEN [tables |-> existing, created |-> {}, exc |-> "OperationalError"]
    ELSE [tables |-> existing \cup todo, created |-> todo, exc |-> NoExc]

\* DatabaseManager(database_url) on a store holding the tables `existing`:
\* create_engine and sessionmaker open no connection; create_all is the
\* first statement to reach the store and raises when it cannot be reached.
DatabaseManager(existing, reachable) ==
    IF reachable
    THEN [reachable |-> TRUE] @@ create_all(existing, TRUE)
    ELSE [reachable |-> FALSE, tables |-> existing, created |-> {},
          exc |-> "OperationalError"]

\* Variant of main_except with a defect: the handler names SQLAlchemyError.
main_except_StoreErrorsOnly(e) ==
    IF e \in {"IntegrityError", "PendingRollbackError", "OperationalError"}
    THEN [printed |-> e, escaped |-> NoExc]
    ELSE [printed |-> NoExc, escaped |-> e]

\* except Exception as e: print(...) around the whole body of main. Every
\* exception raised here derives from Exception. [printed, escaped]
main_except(e) == [printed |-> e, escaped |-> NoExc]

-----------------------------------------------------------------------------
\* Inputs of the exploration.

Entities ==
    { Toy("t1", "Chew Toy", "Rubber"),
      Owner("o1", "John Doe", "john@example.com"),
      Animal("a1", "Baxter", 5, "t1", "o1"),
      Animal("a1", "Rex", 5, "t1", "o9") }

Ids(type) ==
    CASE type = "Toy" -> {"t1"}
      [] type = "Owner" -> {"o1"}
      [] type = "Animal" -> {"a1", "a2"}

Change(key, value) == [key |-> key, value |-> value]

KwargsSet(type) ==
    IF type = "Animal"
    THEN { <<Change("name", "Max")>>,
           <<Change("name", "Max"), Change("favorite_toy", "Chew Toy")>>,
           <<Change("owner_id", "o9")>>,
           <<Change("id", "a2")>> }
    ELSE { <<Change("name", "Max")>> }

-----------------------------------------------------------------------------
\* The program: runs of the entry point one after the other on one store,
\* each building a DatabaseManager and running a block of repository calls
\* in one scope.

NoCall ==
    [op |-> "none", type |-> NoneValue, id |-> NoneValue, entity |-> {},
     kwargs |-> <<>>, exc |-> NoExc, value |-> {}, reported |-> FALSE]

Init ==
    /\ impl \in {"SQLAlchemyRepository", "Repository"}
    /\ fkEnforced \in BOOLEAN
    /\ tables = {}
    /\ manager = [reachable |-> TRUE, tables |-> {}, created |-> {}, exc |-> NoExc]
    /\ printed = NoExc
    /\ escaped = NoExc
    /\ db = {}
    /\ txdb = {}
    /\ status = "none"
    /\ new = {}
    /\ dirty = {}
    /\ calls = <<>>
    /\ exitLog = <<>>
    /\ commits = 0
    /\ pc = "idle"
    /\ exc = NoExc
    /\ last = NoCall
    /\ blockExc = NoExc
    /\ propagated = NoExc
    /\ dbAtEnter = {}
    /\ added = {}
    /\ nops = 0

\* The session takes the value s.
SetSession(s) ==
    /\ db' = s.db
    /\ txdb' = s.txdb
    /\ status' = s.status
    /\ new' = s.new
    /\ dirty' = s.dirty

\* Number of commit() calls in `log` that returned normally.
Committed(log) == Cardinality({i \in DOMAIN log : log[i].m = "commit" /\ log[i].ok})

\* A repository call of the block with outcome r.
Returned(r, call) ==
    /\ SetSession(r.s)
    /\ calls' = r.log
    /\ commits' = commits + Committed(r.log)
    /\ exc' = r.exc
    /\ last' = [call EXCEPT !.exc = r.exc, !.value = r.value, !.entity = r.entity,
                            !.reported = r.reported]
    /\ added' = IF call.op = "add"
                THEN (IF r.exc = NoExc THEN added \cup r.entity ELSE added)
                ELSE IF call.op \in {"update", "delete"}
                THEN {e \in added : Key(e) # <<call.type, call.id>>}
                ELSE added
    /\ nops' = nops + 1
    /\ UNCHANGED <<impl, fkEnforced, tables, manager, printed, escaped,
                   exitLog, pc, blockExc, propagated, dbAtEnter>>

InBlock == pc = "in_scope" /\ exc = NoExc /\ nops < MaxOps

\* try: db_manager = DatabaseManager(database_url)
main_DatabaseManager ==
    \E reachable \in BOOLEAN :
        LET m == DatabaseManager(tables, reachable) IN
        /\ pc = "idle"
        /\ nops < MaxOps
        /\ manager' = m
        /\ tables' = m.tables
        /\ pc' = IF m.exc = NoExc THEN "constructed" ELSE "init_failed"
        /\ status' = "none"
        /\ printed' = NoExc
        /\ exitLog' = <<>>
        /\ blockExc' = NoExc
        /\ propagated' = NoExc
        /\ UNCHANGED <<impl, fkEnforced, escaped, db, txdb, new, dirty, calls, commits,
                       exc, last, dbAtEnter, added, nops>>

\* session = self.Session(); yield session
session_scope_enter ==
    /\ pc = "constructed"
    /\ SetSession(NewSession(db))
    /\ calls' = <<>>
    /\ exitLog' = <<>>
    /\ commits' = 0
    /\ pc' = "in_scope"
    /\ exc' = NoExc
    /\ last' = NoCall
    /\ blockExc' = NoExc
    /\ propagated' = NoExc
    /\ dbAtEnter' = db
    /\ added' = {}
    /\ UNCHANGED <<impl, fkEnforced, tables, manager, printed, escaped,
                   nops>>

CallAdd ==
    \E entity \in Entities :
        /\ InBlock
        /\ Returned(add(Cur, entity),
                    [NoCall EXCEPT !.op = "add", !.type = entity.type, !.id = entity.id])

CallGetById ==
    \E type \in Types : \E id \in Ids(type) :
        /\ InBlock
        /\ Returned(get_by_id(Cur, type, id),
                    [NoCall EXCEPT !.op = "get_by_id", !.type = type, !.id = id])

CallUpdate ==
    \E type \in Types : \E id \in Ids(type) : \E kwargs \in KwargsSet(type) :
        /\ InBlock
        /\ Returned(update(Cur, type, id, kwargs),
                    [NoCall EXCEPT !.op = "update", !.type = type, !.id = id,
                                   !.kwargs = kwargs])

CallDelete ==
    \E type \in Types : \E id \in Ids(type) :
        /\ InBlock
        /\ Returned(delete(Cur, type, id),
                    [NoCall EXCEPT !.op = "delete", !.type = type, !.id = id])

\* The block handles the exception a repository call raised and goes on.
BlockCatches ==
    /\ pc = "in_scope"
    /\ exc # NoExc
    /\ exc' = NoExc
    /\ UNCHANGED <<impl, fkEnforced, tables, manager, printed, escaped,
                   db, txdb, status, new, dirty, calls, exitLog,
                   commits, pc, last, blockExc, propagated, dbAtEnter, added, nops>>

\* Variants of ScopeExit with a defect, used to test that the properties
\* below depend on it.
\* The except clause does not roll back.
ScopeExit_RollbackSkipped(s, e) ==
    LET c == session_commit(s)
        raised == IF e = NoExc THEN c.exc ELSE e
        s1 == IF e = NoExc THEN c.s ELSE s
        log1 == IF e = NoExc THEN <<Call("scope", "commit", c.exc = NoExc)>> ELSE <<>>
    IN [s |-> session_close(s1),
        log |-> log1 \o <<Call("scope", "close", TRUE)>>,
        raised |-> raised]

\* The closing commit is missing.
ScopeExit_NoCommit(s, e) ==
    LET handled == e \in {"IntegrityError", "PendingRollbackError"}
        s2 == IF handled THEN session_rollback(s) ELSE s
        log2 == IF handled THEN <<Call("scope", "rollback", TRUE)>> ELSE <<>>
    IN [s |-> session_close(s2),
        log |-> log2 \o <<Call("scope", "close", TRUE)>>,
        raised |-> e]

\* close() sits at the end of the try body instead of in a finally clause.
ScopeExit_CloseInTry(s, e) ==
    LET c == session_commit(s)
        raised == IF e = NoExc THEN c.exc ELSE e
        s1 == IF e = NoExc THEN c.s ELSE s
        log1 == IF e = NoExc THEN <<Call("scope", "commit", c.exc = NoExc)>> ELSE <<>>
        handled == raised \in {"IntegrityError", "PendingRollbackError"}
        s2 == IF handled THEN session_rollback(s1) ELSE s1
        log2 == IF handled THEN <<Call("scope", "rollback", TRUE)>> ELSE <<>>
    IN [s |-> IF raised = NoExc THEN session_close(s2) ELSE s2,
        log |-> log1 \o log2 \o
                (IF raised = NoExc THEN <<Call("scope", "close", TRUE)>> ELSE <<>>),
        raised |-> raised]

\* commit() sits in the finally clause, so it also runs after a rollback.
ScopeExit_CommitInFinally(s, e) ==
    LET handled == e \in {"IntegrityError", "PendingRollbackError"}
        s1 == IF handled THEN session_rollback(s) ELSE s
        log1 == IF handled THEN <<Call("scope", "rollback", TRUE)>> ELSE <<>>
        c == session_commit(s1)
    IN [s |-> session_close(c.s),
        log |-> log1 \o <<Call("scope", "commit", c.exc = NoExc),
                          Call("scope", "close", TRUE)>>,
        raised |-> IF e = NoExc THEN c.exc ELSE e]

\* commit() sits in an else clause of the try, so the except clause does not
\* cover it.
ScopeExit_CommitInElse(s, e) ==
    LET handled == e \in {"IntegrityError", "PendingRollbackError"}
        s1 == IF handled THEN session_rollback(s) ELSE s
        log1 == IF handled THEN <<Call("scope", "rollback", TRUE)>> ELSE <<>>
        c == session_commit(s1)
        s2 == IF e = NoExc THEN c.s ELSE s1
        log2 == IF e = NoExc THEN <<Call("scope", "commit", c.exc = NoExc)>> ELSE <<>>
    IN [s |-> session_close(s2),
        log |-> log1 \o log2 \o <<Call("scope", "close", TRUE)>>,
        raised |-> IF e = NoExc THEN c.exc ELSE e]

\* What session_scope does once the block is left with exception e (NoExc:
\* the block completed): [s, log, raised].
\*     try:      yield session; session.commit()
\*     except SQLAlchemyError: session.rollback(); raise
\*     finally:  session.close()
ScopeExit(s, e) ==
    LET c == session_commit(s)
        raised == IF e = NoExc THEN c.exc ELSE e
        s1 == IF e = NoExc THEN c.s ELSE s
        log1 == IF e = NoExc THEN <<Call("scope", "commit", c.exc = NoExc)>> ELSE <<>>
        handled == IsSQLAlchemyError(raised)
        s2 == IF handled THEN session_rollback(s1) ELSE s1
        log2 == IF handled THEN <<Call("scope", "rollback", TRUE)>> ELSE <<>>
    IN [s |-> session_close(s2),
        log |-> log1 \o log2 \o <<Call("scope", "close", TRUE)>>,
        raised |-> raised]

session_scope_exit ==
    LET x == ScopeExit(Cur, exc) IN
    /\ pc = "in_scope"
    /\ SetSession(x.s)
    /\ exitLog' = x.log
    /\ commits' = commits + Committed(x.log)
    /\ blockExc' = exc
    /\ propagated' = x.raised
    /\ exc' = NoExc
    /\ pc' = "exited"
    /\ UNCHANGED <<impl, fkEnforced, tables, manager, printed, escaped,
                   calls, last, dbAtEnter, added, nops>>

\* main is left: normally when nothing was raised, through its handler
\* otherwise. The repository and the entities of the block are gone.
main_return ==
    LET e == IF pc = "init_failed" THEN manager.exc ELSE propagated
        h == IF e = NoExc THEN [printed |-> NoExc, escaped |-> NoExc] ELSE main_except(e)
    IN /\ pc \in {"init_failed", "exited"}
       /\ printed' = h.printed
       /\ escaped' = h.escaped
       /\ pc' = "idle"
       /\ calls' = <<>>
       /\ commits' = 0
       /\ last' = NoCall
       /\ dbAtEnter' = db
       /\ added' = {}
       /\ UNCHANGED <<impl, fkEnforced, tables, manager, db, txdb, status, new, dirty,
                      exitLog, exc, blockExc, propagated, nops>>

Next ==
    \/ main_DatabaseManager
    \/ main_return
    \/ session_scope_enter
    \/ CallAdd
    \/ CallGetById
    \/ CallUpdate
    \/ CallDelete
    \/ BlockCatches
    \/ session_scope_exit

Spec == Init /\ [][Next]_vars

-----------------------------------------------------------------------------
\* Properties.

\* The method names of a call log, in order.
Names(log) == [i \in DOMAIN log |-> log[i].m]

Count(log, m) == Cardinality({i \in DOMAIN log : log[i].m = m})

\* The step is a repository call / the step leaves the scope.
IsCall == nops' = nops + 1
IsExit == pc = "in_scope" /\ pc' = "exited"

StoreErrors == {"IntegrityError", "PendingRollbackError"}

\* C1 as stated: for EVERY failure raised inside the block, of any kind, the
\* scope calls rollback before the failure reaches the caller, makes no
\* closing commit, and closes the session.
C1_AnyFailureRolledBack ==
    (pc = "exited" /\ blockExc # NoExc) =>
        /\ Names(exitLog) = <<"rollback", "close">>
        /\ status = "closed"

\* C1 (amended): a store error raised inside the block is rolled back by the
\* scope, then the session is closed; a failure of any other kind gets no
\* rollback call: the session is only closed, which discards the uncommitted
\* work. In both cases there is no closing commit and the same exception
\* reaches the caller.
C1_StoreFailureRolledBack ==
    (pc = "exited" /\ blockExc # NoExc) =>
        /\ Names(exitLog) = IF blockExc \in StoreErrors
                            THEN <<"rollback", "close">>
                            ELSE <<"close">>
        /\ propagated = blockExc
        /\ status = "closed" /\ new = {} /\ dirty = {} /\ txdb = db

C1_Witness ==
    /\ pc = "exited"
    /\ blockExc = "IntegrityError"
    /\ Names(exitLog) = <<"rollback", "close">>

\* C2 as stated: when the block completes without raising, the scope commits
\* before it closes, and every change staged in the block is durable once the
\* scope has exited.
C2_CompletedBlockIsDurable ==
    [][(IsExit /\ exc = NoExc) =>
           /\ \E i, j \in DOMAIN exitLog' :
                 i < j /\ exitLog'[i].m = "commit" /\ exitLog'[j].m = "close"
           /\ new \subseteq db'
           /\ \A d \in dirty : d.row \in db']_vars

\* C2 (amended): when the block completes without raising, the scope issues
\* its closing commit before it closes the session. If that commit goes
\* through, every change still staged is durable after the exit; if it fails,
\* the scope rolls back, the store is left as it was, and the failure reaches
\* the caller.
C2_CompletedBlockIsCommitted ==
    [][(IsExit /\ exc = NoExc) =>
           IF exitLog'[1].ok
           THEN /\ Names(exitLog') = <<"commit", "close">>
                /\ new \subseteq db'
                /\ \A d \in dirty : d.row \in db'
                /\ propagated' = NoExc
           ELSE /\ Names(exitLog') = <<"commit", "rollback", "close">>
                /\ db' = db
                /\ propagated' \in StoreErrors]_vars

C2_Witness ==
    /\ pc = "exited"
    /\ blockExc = NoExc
    /\ propagated = NoExc
    /\ Names(exitLog) = <<"commit", "close">>
    /\ added # {}
    /\ added \subseteq db

\* C3: a session opened by session_scope is closed exactly once on every
\* exit path, the close is the last thing the scope does with it, and it is
\* not closed while the block runs.
C3_ClosedExactlyOnce ==
    /\ pc = "in_scope" => (exitLog = <<>> /\ status \in {"active", "deactive"})
    /\ pc = "exited" =>
          /\ Count(exitLog, "close") = 1
          /\ exitLog[Len(exitLog)].m = "close"
          /\ status = "closed"

\* The exit path through a failing closing commit.
C3_Witness ==
    /\ pc = "exited"
    /\ blockExc = NoExc
    /\ propagated # NoExc
    /\ Names(exitLog) = <<"commit", "rollback", "close">>

\* C5 as stated: over the lifetime of one scope the session is never
\* committed more than once, and never both committed and rolled back.
C5_OneCommitPerScope ==
    /\ commits <= 1
    /\ ~(commits >= 1 /\ Count(exitLog, "rollback") >= 1)

\* C5 (amended): the scope itself takes one decision on leaving: it issues
\* its closing commit exactly when the block completed, at most one rollback,
\* and no rollback after a closing commit that went through. The commits of
\* the repository calls inside the block come on top of it.
C5_OneDecisionByScope ==
    pc = "exited" =>
        /\ Count(exitLog, "commit") = (IF blockExc = NoExc THEN 1 ELSE 0)
        /\ Count(exitLog, "rollback") <= 1
        /\ \A i, j \in DOMAIN exitLog :
              (exitLog[i].m = "commit" /\ exitLog[i].ok) => exitLog[j].m # "rollback"

\* A scope in which the repository calls committed and the scope committed too.
C5_Witness ==
    /\ pc = "exited"
    /\ Names(exitLog) = <<"commit", "close">>
    /\ commits > 1

\* C4: a failing add stores nothing, and when a store failure ends the
\* block, the scope's rollback undoes nothing that was committed before: the
\* store after the exit is the store before it, and the entities added
\* earlier in the scope are in it.
C4_EarlierAddsSurviveRollback ==
    [][/\ (IsCall /\ last'.op = "add" /\ last'.exc # NoExc) => db' = db
       /\ (IsExit /\ exc \in StoreErrors) =>
              /\ Count(exitLog', "rollback") = 1
              /\ db' = db
              /\ added \subseteq db']_vars

\* A scope left through the failure of an add with a duplicate id, with the
\* entity added earlier under that id still stored and the failing one not.
C4_Witness ==
    /\ pc = "exited"
    /\ blockExc = "IntegrityError"
    /\ last.op = "add"
    /\ \E e \in last.entity : \E r \in added :
          Key(r) = Key(e) /\ r # e /\ r \in db /\ e \notin db

\* C6: add(E) that returns normally, followed by get_by_id(type(E), E.id),
\* returns an entity equal to E on every field; and add(E) does return
\* normally for a valid E (references, if any, exist) whose id is not in the
\* store, on a session that is usable and holds no other unflushed change.
C6_AddThenGetById ==
    [][IsCall =>
           /\ (last.op = "add" /\ last.exc = NoExc /\ last'.op = "get_by_id"
               /\ last'.type = last.type /\ last'.id = last.id)
                 => (last'.exc = NoExc /\ last'.value = last.entity)
           /\ (last'.op = "add" /\ status = "active" /\ new = {} /\ dirty = {}
               /\ Rows(txdb, last'.type, last'.id) = {}
               /\ RefsExist(txdb \cup last'.entity))
                 => last'.exc = NoExc]_vars

\* The demo sequence: Toy, Owner and then the Animal referring to both are
\* added in one scope, and get_by_id returns the Animal as given.
C6_Witness ==
    /\ fkEnforced
    /\ added = {Toy("t1", "Chew Toy", "Rubber"),
                Owner("o1", "John Doe", "john@example.com"),
                Animal("a1", "Baxter", 5, "t1", "o1")}
    /\ last.op = "get_by_id"
    /\ last.value = {Animal("a1", "Baxter", 5, "t1", "o1")}

\* The row `row` with every field change of kwargs applied.
WithChanges(row, kwargs) ==
    [f \in DOMAIN row |->
        IF \E i \in DOMAIN kwargs : kwargs[i].key = f
        THEN LET i == CHOOSE k \in DOMAIN kwargs :
                        /\ kwargs[k].key = f
                        /\ \A j \in DOMAIN kwargs : kwargs[j].key = f => j <= k
             IN kwargs[i].value
        ELSE row[f]]

\* C7 as stated: update is all-or-nothing. An update of an existing entity
\* that raises commits nothing, and nothing is committed on the session
\* afterwards while the block makes no other call (the block handling the
\* exception, the scope's closing commit); an update that returns has
\* committed all its changes.
C7_UpdateAllOrNothing ==
    [][/\ (IsCall /\ last'.op = "update" /\ last'.entity # {}) =>
              IF last'.exc # NoExc
              THEN db' = db
              ELSE \A e \in last'.entity : WithChanges(e, last'.kwargs) \in db'
       /\ (~IsCall /\ pc = "in_scope" /\ last.op = "update" /\ last.exc # NoExc
           /\ last.entity # {}) =>
              db' = db]_vars

\* The updated-timestamp of `after` is strictly greater than that of `before`.
TimestampAdvanced(before, after) ==
    /\ "updated_at" \in DOMAIN before
    /\ "updated_at" \in DOMAIN after
    /\ after.updated_at > before.updated_at

\* C8 as stated: an update of an existing entity that returns sets exactly
\* the named fields, leaves every other field of the entity and every other
\* entity unchanged, and moves the entity's updated-timestamp strictly
\* forward.
C8_UpdateSetsNamedFieldsAndTimestamp ==
    [][(IsCall /\ last'.op = "update" /\ last'.exc = NoExc /\ last'.entity # {}) =>
           \A e \in last'.entity :
               /\ WithChanges(e, last'.kwargs) \in db'
               /\ db' \ {WithChanges(e, last'.kwargs)} = db \ {e}
               /\ \E r \in Rows(db', e.type, WithChanges(e, last'.kwargs).id) :
                     TimestampAdvanced(e, r)]_vars

\* C9 as stated: update and delete of an id that is not in the store change
\* nothing, issue no commit, raise nothing, and give the caller an explicit
\* not-found report.
C9_AbsentTargetReported ==
    [][(IsCall /\ last'.op \in {"update", "delete"}
        /\ Rows(db, last'.type, last'.id) = {}) =>
           /\ db' = db
           /\ Count(calls', "commit") = 0
           /\ last'.exc = NoExc
           /\ last'.reported]_vars

\* The Animal e refers to a Toy or an Owner that `store` does not hold.
Dangling(e, store) ==
    \/ e.favorite_toy_id # NoneValue /\ Rows(store, "Toy", e.favorite_toy_id) = {}
    \/ e.owner_id # NoneValue /\ Rows(store, "Owner", e.owner_id) = {}

\* C10 as stated: add of an Animal whose owner_id or favorite_toy_id names
\* an id that is not in the store fails with a store error, and the Animal
\* is not persisted, neither by the call nor by a later commit while it is
\* the last call made.
C10_DanglingAnimalRejected ==
    [][\A e \in last'.entity :
           (last'.op = "add" /\ e.type = "Animal" /\ Dangling(e, db')) =>
               /\ IsCall => last'.exc \in StoreErrors
               /\ e \notin db']_vars

\* C11: a delete that found its entity and returned has removed the row with
\* that id, so a get_by_id of the same id made next returns None without
\* raising; on a session holding no other uncommitted change it removes that
\* row and no other. The delete of a stored entity does return on a usable
\* session with nothing else uncommitted, unless the store enforces foreign
\* keys and an Animal still refers to the entity.
C11_DeleteThenGetById ==
    [][IsCall =>
           /\ (last'.op = "delete" /\ last'.exc = NoExc /\ last'.entity # {}) =>
                 /\ Rows(db', last'.type, last'.id) = {}
                 /\ (new = {} /\ dirty = {} /\ txdb = db) => db' = db \ last'.entity
           /\ (last.op = "delete" /\ last.exc = NoExc /\ last.entity # {}
               /\ last'.op = "get_by_id" /\ last'.type = last.type /\ last'.id = last.id)
                 => (last'.exc = NoExc /\ last'.value = {})
           /\ (last'.op = "delete" /\ status = "active" /\ new = {} /\ dirty = {}
               /\ txdb = db /\ Rows(db, last'.type, last'.id) # {}
               /\ (fkEnforced => RefsExist(db \ Rows(db, last'.type, last'.id))))
                 => (last'.exc = NoExc /\ last'.entity = Rows(db, last'.type, last'.id))]_vars

\* A Toy is deleted from a store that holds other rows, which stay, and the
\* get_by_id of its id made next returns None.
C11_Witness ==
    /\ last.op = "get_by_id"
    /\ last.type = "Toy"
    /\ last.value = {}
    /\ last.exc = NoExc
    /\ Names(calls) = <<"query">>
    /\ Rows(db, "Toy", last.id) = {}
    /\ Rows(dbAtEnter, "Toy", last.id) # {}
    /\ \E r \in db : r.type = "Owner"

\* C12: get_by_id never changes the committed store and never commits. When
\* it returns it returns the row of that type and id in the session's view,
\* or None when there is none; on a usable session with no uncommitted change
\* it does return, with the stored row when the id is in the store and with
\* None when it is not.
C12_GetByIdReadsOnly ==
    [][(IsCall /\ last'.op = "get_by_id") =>
           /\ db' = db
           /\ Count(calls', "commit") = 0
           /\ commits' = commits
           /\ last'.exc = NoExc => last'.value = Rows(txdb', last'.type, last'.id)
           /\ (status = "active" /\ new = {} /\ dirty = {} /\ txdb = db) =>
                 /\ last'.exc = NoExc
                 /\ last'.value = Rows(db, last'.type, last'.id)
                 /\ txdb' = txdb]_vars

\* get_by_id of an id that is not stored returns None while another Animal
\* is stored.
C12_Witness ==
    /\ last.op = "get_by_id"
    /\ last.type = "Animal"
    /\ last.id = "a2"
    /\ last.exc = NoExc
    /\ last.value = {}
    /\ Rows(db, "Animal", "a1") # {}
    /\ Rows(db, "Animal", "a2") = {}

\* C13 as stated: every failure that leaves session_scope, whatever its
\* kind, reaches the caller as a StorageError wrapping the cause, and a
\* store-level error never reaches the caller as itself.
C13_FailuresReachCallerWrapped ==
    pc = "exited" =>
        /\ (blockExc # NoExc \/ ~exitLog[1].ok) => propagated = "StorageError"
        /\ propagated \notin StoreErrors

\* The session calls a mutating repository call makes before its commit.
Staging(op) ==
    CASE op = "add" -> <<"add">>
      [] op = "update" -> <<"query">>
      [] op = "delete" -> <<"query", "delete">>

\* C14: a mutating call that takes effect (an add, or an update or delete
\* that found its entity, returning normally) issues exactly one commit, as
\* its last session call, after staging its change; when it returns the
\* change is in the committed store and nothing is left uncommitted on the
\* session. A mutating call that finds no entity issues no commit, and one
\* that raises has committed nothing.
C14_OneCommitPerEffectiveCall ==
    [][(IsCall /\ last'.op \in {"add", "update", "delete"}) =>
           IF last'.exc = NoExc /\ last'.entity # {}
           THEN /\ Names(calls') = Staging(last'.op) \o <<"commit">>
                /\ calls'[Len(calls')].ok
                /\ commits' = commits + 1
                /\ new' = {} /\ dirty' = {} /\ txdb' = db'
                /\ \A e \in last'.entity :
                      CASE last'.op = "add" -> e \in db'
                        [] last'.op = "update" -> WithChanges(e, last'.kwargs) \in db'
                        [] last'.op = "delete" -> Rows(db', last'.type, last'.id) = {}
           ELSE /\ commits' = commits
                /\ db' = db
                /\ Count(calls', "commit") <= 1
                /\ last'.exc = NoExc => Count(calls', "commit") = 0]_vars

\* Two adds in one scope, each committed by its own call: the second add has
\* just returned, the scope has not exited, and both entities are stored.
C14_Witness ==
    /\ pc = "in_scope"
    /\ last.op = "add"
    /\ last.exc = NoExc
    /\ commits = 2
    /\ Cardinality(added) = 2
    /\ added \subseteq db
    /\ db \ dbAtEnter = added

\* C15 as stated: in every reachable state of the store, each reference a
\* persisted Animal carries names a Toy / an Owner that is in the store.
C15_ReferencesAlwaysResolve ==
    \A a \in db : a.type = "Animal" => ~Dangling(a, db)

\* No two rows of `store` have the same type and id.
UniqueIds(store) == \A r1, r2 \in store : Key(r1) = Key(r2) => r1 = r2

\* The session holds the row of that type and id under that id: it is in the
\* session's view and no staged change gives it another id.
HeldUnderId(type, id) ==
    /\ Rows(txdb, type, id) # {}
    /\ \A d \in dirty : d.key = <<type, id>> => Key(d.row) = d.key

StoredKeys(store) == {Key(r) : r \in store}

\* C17 as stated: no update, whatever its field changes, changes the id
\* under which a persisted entity is stored.
C17_UpdateKeepsId ==
    [][(IsCall /\ last'.op = "update") => StoredKeys(db') = StoredKeys(db)]_vars

\* C20: when the block completed and the scope's closing commit fails, the
\* scope rolls back, then closes the session, and the commit's store error
\* reaches the caller; what the block left uncommitted is not in the store,
\* which is as the repository calls of the block had committed it.
C20_ClosingCommitFailure ==
    [][(IsExit /\ exc = NoExc /\ ~exitLog'[1].ok) =>
           /\ Names(exitLog') = <<"commit", "rollback", "close">>
           /\ propagated' \in StoreErrors
           /\ blockExc' = NoExc
           /\ status' = "closed" /\ new' = {} /\ dirty' = {} /\ txdb' = db'
           /\ db' = db
           /\ added \subseteq db']_vars

\* The block handled the failure of a duplicate add and completed; the
\* closing commit raised; the entity committed by the first add is stored
\* and the duplicate is not.
C20_Witness ==
    /\ pc = "exited"
    /\ blockExc = NoExc
    /\ propagated = "PendingRollbackError"
    /\ Names(exitLog) = <<"commit", "rollback", "close">>
    /\ added # {}
    /\ added \subseteq db
    /\ last.op = "add"
    /\ last.exc # NoExc
    /\ \A e \in last.entity : e \notin db

\* The step builds a DatabaseManager / the step leaves main.
IsInit == pc = "idle" /\ pc' \in {"constructed", "init_failed"}
IsReturn == pc \in {"init_failed", "exited"} /\ pc' = "idle"

\* C18: the store holds either no table or exactly toys, owners and animals.
\* A construction of DatabaseManager that reaches the store does not raise,
\* whether or not the tables exist, creates exactly the missing tables (none
\* from the second construction on) and leaves exactly the three tables; no
\* construction changes a stored row.
C18_SchemaCreationIdempotent ==
    [][/\ tables' \in {{}, AllTables}
       /\ IsInit =>
              /\ db' = db
              /\ manager'.reachable =>
                    /\ manager'.exc = NoExc
                    /\ manager'.created = AllTables \ tables
                    /\ tables' = AllTables
              /\ tables = AllTables => (tables' = tables /\ manager'.created = {})
              /\ ~manager'.reachable => tables' = tables]_vars

\* A DatabaseManager has been built on a store that already held the tables
\* and rows: nothing was created and nothing raised.
C18_Witness ==
    /\ pc = "constructed"
    /\ manager.exc = NoExc
    /\ manager.created = {}
    /\ tables = AllTables
    /\ db # {}

\* C19: no failure leaves main. Once the construction has raised or the
\* scope has been left, the only thing main does is return: it makes no
\* further call and changes nothing in the store. On the way it prints the
\* failure, if there is one, whether it came from the construction, from the
\* block or from the closing commit; a session opened in the run is closed by
\* then, and none is open when the construction failed.
C19_MainHandlesEveryFailure ==
    [][/\ escaped' = NoExc
       /\ pc \in {"init_failed", "exited"} =>
              /\ IsReturn
              /\ nops' = nops /\ db' = db /\ tables' = tables /\ status' = status
              /\ printed' = (IF pc = "init_failed" THEN manager.exc ELSE propagated)
              /\ status = (IF pc = "init_failed" THEN "none" ELSE "closed")
              /\ pc = "init_failed" => printed' # NoExc]_vars

\* main has returned after printing the failure of the scope's closing
\* commit; the session is closed.
C19_Witness ==
    /\ pc = "idle"
    /\ printed = "IntegrityError"
    /\ escaped = NoExc
    /\ blockExc = NoExc
    /\ Names(exitLog) = <<"commit", "rollback", "close">>
    /\ status = "closed"


====
